---------------------------- MODULE Spec2Model ----------------------------
(***************************************************************************)
(* Model of the Firefly provider's authenticated request pipeline          *)
(* (internal/provider/provider.go) and of the sysinfo data source's        *)
(* read-and-map pipeline (internal/provider/sysinfo_data_source.go).       *)
(*                                                                         *)
(* Strings are sequences of one-character strings, so that parsing,        *)
(* formatting and quoting are computed and not assumed.                    *)
(***************************************************************************)
EXTENDS Naturals, Sequences, FiniteSets

None == [k |-> "none"]

-----------------------------------------------------------------------------
(* Characters and string helpers                                           *)

Letters == {"a","b","c","d","e","f","g","h","i","j","k","l","m",
            "n","o","p","q","r","s","t","u","v","w","x","y","z"}
Digits  == {"0","1","2","3","4","5","6","7","8","9"}

HasPrefix(s, p) == Len(s) >= Len(p) /\ SubSeq(s, 1, Len(p)) = p

Drop(s, n) == SubSeq(s, n + 1, Len(s))

\* strings.Index for a single character: first position of c in s, 0 if none
IndexOf(s, c) ==
  IF \E i \in 1..Len(s) : s[i] = c
  THEN CHOOSE i \in 1..Len(s) : s[i] = c /\ \A j \in 1..(i-1) : s[j] # c
  ELSE 0

\* strings.LastIndex for a single character
LastIndexOf(s, c) ==
  IF \E i \in 1..Len(s) : s[i] = c
  THEN CHOOSE i \in 1..Len(s) : s[i] = c /\ \A j \in (i+1)..Len(s) : s[j] # c
  ELSE 0

-----------------------------------------------------------------------------
(* net/url.Parse, as called by RoundTrip on the configured base URL and by *)
(* http.NewRequest on the request target.  The alphabet of the model has   *)
(* no '?', '#', '@', '%', '[' or control bytes, so query/fragment splitting,*)
(* userinfo, escapes and IPv6 literals are not part of it.                 *)

\* url.getScheme: the scheme is the run of letters/digits/+-. before the
\* first ':'; a ':' in first position is the "missing protocol scheme" error.
\* schemeStops is the set of positions where the scan of getScheme returns.
schemeStops(raw) ==
  {i \in 1..Len(raw) : \/ raw[i] = ":"
                       \/ raw[i] \notin Letters \cup Digits \cup {"+", "-", "."}
                       \/ (i = 1 /\ raw[i] \notin Letters)}

schemeAt(raw, i) ==
  IF raw[i] # ":" THEN [err |-> FALSE, scheme |-> <<>>, rest |-> raw]
  ELSE IF i = 1 THEN [err |-> TRUE, scheme |-> <<>>, rest |-> <<>>]
  ELSE [err |-> FALSE, scheme |-> SubSeq(raw, 1, i - 1), rest |-> Drop(raw, i)]

firstStop(stops) == CHOOSE k \in stops : \A j \in stops : k <= j

getScheme(raw) ==
  IF schemeStops(raw) = {}
  THEN [err |-> FALSE, scheme |-> <<>>, rest |-> raw]
  ELSE schemeAt(raw, firstStop(schemeStops(raw)))

\* url.validOptionalPort: "" or ':' followed by digits only
validOptionalPort(port) ==
  \/ port = <<>>
  \/ port[1] = ":" /\ \A i \in 2..Len(port) : port[i] \in Digits

\* url.parseHost, for hosts without brackets: the part from the last ':' on
\* must be a valid optional port
parseHostOk(host) ==
  LET i == LastIndexOf(host, ":")
  IN i = 0 \/ validOptionalPort(SubSeq(host, i, Len(host)))

URLError == [err |-> TRUE, Scheme |-> <<>>, Host |-> <<>>, Opaque |-> <<>>,
             Path |-> <<>>, RawQuery |-> <<>>]

\* strings.Cut(s, "/"): the parts before and from the first '/'
beforeSlash(s) == IF IndexOf(s, "/") = 0 THEN s ELSE SubSeq(s, 1, IndexOf(s, "/") - 1)
fromSlash(s)   == IF IndexOf(s, "/") = 0 THEN <<>> ELSE Drop(s, IndexOf(s, "/") - 1)

\* url.parse after getScheme has split off the scheme
parseRest(scheme, rest) ==
  IF ~HasPrefix(rest, <<"/">>) /\ scheme # <<>>
  THEN \* rootless paths per RFC 3986 are opaque
       [err |-> FALSE, Scheme |-> scheme, Host |-> <<>>, Opaque |-> rest,
        Path |-> <<>>, RawQuery |-> <<>>]
  ELSE IF ~HasPrefix(rest, <<"/">>) /\ IndexOf(beforeSlash(rest), ":") # 0
  THEN \* first path segment in URL cannot contain colon
       URLError
  ELSE IF /\ HasPrefix(rest, <<"/", "/">>)
          /\ (scheme # <<>> \/ ~HasPrefix(rest, <<"/", "/", "/">>))
  THEN IF parseHostOk(beforeSlash(Drop(rest, 2)))
       THEN [err |-> FALSE, Scheme |-> scheme, Host |-> beforeSlash(Drop(rest, 2)),
             Opaque |-> <<>>, Path |-> fromSlash(Drop(rest, 2)), RawQuery |-> <<>>]
       ELSE URLError
  ELSE [err |-> FALSE, Scheme |-> scheme, Host |-> <<>>, Opaque |-> <<>>,
        Path |-> rest, RawQuery |-> <<>>]

parseScheme(gs) == IF gs.err THEN URLError ELSE parseRest(gs.scheme, gs.rest)

urlParse(raw) == parseScheme(getScheme(raw))

-----------------------------------------------------------------------------
(* The endpoint attribute's validator, ^https?://[^:/]+(:\d+)?$            *)

HttpPrefix  == <<"h","t","t","p",":","/","/">>
HttpsPrefix == <<"h","t","t","p","s",":","/","/">>

EndpointRegexMatches(s) ==
  \E p \in {HttpPrefix, HttpsPrefix} :
    /\ HasPrefix(s, p)
    /\ LET rest == Drop(s, Len(p)) IN
       \E k \in 1..Len(rest) :
         /\ \A i \in 1..k : rest[i] \notin {":", "/"}
         /\ \/ k = Len(rest)
            \/ /\ k + 1 < Len(rest)
               /\ rest[k + 1] = ":"
               /\ \A i \in (k + 2)..Len(rest) : rest[i] \in Digits

-----------------------------------------------------------------------------
(* Sample inputs                                                           *)

AboutPath  == <<"/","a","p","i","/","v","1","/","a","b","o","u","t">>
DemoTarget == <<"h","t","t","p","s",":","/","/","d","e","m","o",".","f","i","r","e","f","l","y","-","i","i","i",".","o","r","g">>
                \o AboutPath
AccountsPath == <<"/","a","p","i","/","v","1","/","a","c","c","o","u","n","t","s">>
QueryA     == <<"a","=","1">>
OtherHost  == <<"e","x","a","m","p","l","e",".","o","r","g">>

EpLocal    == <<"h","t","t","p",":","/","/","f","i","r","e","f","l","y",".","l","o","c","a","l",":","8","0","0","0">>
EpSecure   == <<"h","t","t","p","s",":","/","/","f","i","r","e","f","l","y",".","i","o">>
EpNoScheme == <<"f","i","r","e","f","l","y",".","l","o","c","a","l">>
EpBadPort  == <<"h","t","t","p",":","/","/","f","i","r","e","f","l","y",".","i","o",":","x">>
EpWithPath == <<"h","t","t","p",":","/","/","f","i","r","e","f","l","y",".","i","o","/","v","1">>

TokA == <<"t","1">>
TokB == <<"t","2">>
BasicCred == <<"B","a","s","i","c"," ","u">>

\* endpoint values a provider block can carry
Endpoints == {EpLocal, EpSecure, EpNoScheme}
\* base URLs a fireflyTransport value can hold
BaseURLs  == Endpoints \cup {EpBadPort, EpWithPath}
Tokens    == {TokA, TokB}

-----------------------------------------------------------------------------
(* http.Request, http.Header and the fireflyTransport                      *)

\* http.NewRequest(method, target, nil): the target is parsed, the header
\* map is empty
requestTo(method, u) ==
  [Method |-> method,
   URL    |-> [Scheme |-> u.Scheme, Host |-> u.Host, Path |-> u.Path,
               RawQuery |-> u.RawQuery],
   Authorization |-> <<>>]

NewRequest(method, target) == requestTo(method, urlParse(target))

\* fmt.Sprintf("Bearer %s", t.accessToken)
BearerValue(accessToken) == <<"B","e","a","r","e","r"," ">> \o accessToken

\* http.Header.Add(key, value): appends to the values of the key
HeaderAdd(values, value) == Append(values, value)

\* http.Header.Get(key): the first value of the key, "" when there is none
HeaderGet(values) == IF values = <<>> THEN <<>> ELSE values[1]

\* type fireflyTransport struct { baseURL, accessToken, rt }
fireflyTransport(baseURL, accessToken) ==
  [baseURL |-> baseURL, accessToken |-> accessToken, rt |-> "DefaultTransport"]

\* http.DefaultTransport.RoundTrip(r) against the remote service: the
\* transport refuses a scheme other than http/https and an empty host,
\* otherwise the remote either refuses the connection or answers with a body
Refused == [k |-> "refused"]

DefaultTransportRoundTrip(r, remote) ==
  IF r.URL.Scheme \notin {<<"h","t","t","p">>, <<"h","t","t","p","s">>}
     \/ r.URL.Host = <<>>
  THEN [err |-> TRUE, refused |-> FALSE, body |-> None]
  ELSE IF remote = Refused
  THEN [err |-> TRUE, refused |-> TRUE, body |-> None]
  ELSE [err |-> FALSE, refused |-> FALSE, body |-> remote]

\* the request as RoundTrip rewrites it (lines 74-76) with parsed the parsed
\* base URL
rewriteSchemeOnly(parsed, accessToken, r) ==
  [r EXCEPT !.URL.Scheme = parsed.Scheme,
            !.Authorization = HeaderAdd(r.Authorization, BearerValue(accessToken))]
rewrite(parsed, accessToken, r) ==
  [r EXCEPT !.URL.Scheme = parsed.Scheme,
            !.URL.Host = parsed.Host,
            !.Authorization = HeaderAdd(r.Authorization, BearerValue(accessToken))]

\* the result of RoundTrip: the request object as it is after the call (it
\* is rewritten in place) and `wire`, the requests that reached the
\* underlying transport, in order
delivered(r2, res) ==
  [err |-> res.err, refused |-> res.refused, body |-> res.body,
   req |-> r2, wire |-> <<r2>>]

\* line 77: return t.rt.RoundTrip(r)
deliver(r2, remote) == delivered(r2, DefaultTransportRoundTrip(r2, remote))

roundTripParsed(parsed, t, r, remote) ==
  IF parsed.err
  THEN [err |-> TRUE, refused |-> FALSE, body |-> None, req |-> r, wire |-> <<>>]
  ELSE deliver(rewrite(parsed, t.accessToken, r), remote)

\* func (t *fireflyTransport) RoundTrip(r)
RoundTrip(t, r, remote) == roundTripParsed(urlParse(t.baseURL), t, r, remote)

\* d.client.Do(httpReq) on http.DefaultClient: one send through the
\* client's Transport; an error is returned to the caller as it is
sendAgain(first, second) == [second EXCEPT !.wire = first.wire \o second.wire]
retryAfter(first, t, remote) ==
  IF first.err /\ first.wire # <<>>
  THEN sendAgain(first, RoundTrip(t, first.req, remote))
  ELSE first
ClientDoRetry(t, r, remote) == retryAfter(RoundTrip(t, r, remote), t, remote)
ClientDo(t, r, remote) == RoundTrip(t, r, remote)

-----------------------------------------------------------------------------
(* The JSON envelope and encoding/json's Decoder.Decode                    *)

JString(s) == [k |-> "string", s |-> s]
JNumber    == [k |-> "number"]
JNull      == [k |-> "null"]
JObject(f) == [k |-> "object", f |-> f]

\* a response body: the JSON text it holds, complete or cut short
Body(json)      == [k |-> "body", complete |-> TRUE, json |-> json]
Truncated(json) == [k |-> "body", complete |-> FALSE, json |-> json]

Envelope(version, api, php, os, driver) ==
  JObject([data |-> JObject([version     |-> JString(version),
                             api_version |-> JString(api),
                             php_version |-> JString(php),
                             os          |-> JString(os),
                             driver      |-> JString(driver)])])

EnvelopeA == Envelope(<<"6",".","1",".","0">>, <<"2",".","0",".","0">>,
                      <<"8",".","2">>, <<"L","i","n","u","x">>,
                      <<"m","y","s","q","l">>)
\* a data object without "os"
MissingOs ==
  JObject([data |-> JObject([version     |-> JString(<<"6",".","1",".","0">>),
                             api_version |-> JString(<<"2",".","0",".","0">>),
                             php_version |-> JString(<<"8",".","2">>),
                             driver      |-> JString(<<"m","y","s","q","l">>)])])
\* "version" is a number, not a string
NumericVersion ==
  JObject([data |-> JObject([version     |-> JNumber,
                             api_version |-> JString(<<"2",".","0",".","0">>),
                             php_version |-> JString(<<"8",".","2">>),
                             os          |-> JString(<<"L","i","n","u","x">>),
                             driver      |-> JString(<<"m","y","s","q","l">>)])])
\* {} : no "data" member
NoData == JObject(<<>>)

Bodies == {Body(EnvelopeA), Truncated(EnvelopeA), Body(MissingOs),
           Body(NumericVersion), Body(NoData)}

\* what the remote service does with a request: answers with a body or
\* refuses the connection
Remotes == Bodies \cup {Refused}

\* the struct fields of respData.Data and their json tags (lines 101-107)
FieldTags == [Version |-> "version", APIVersion |-> "api_version",
              PHPVersion |-> "php_version", OS |-> "os", DBDriver |-> "driver"]
Fields == {"Version", "APIVersion", "PHPVersion", "OS", "DBDriver"}

\* Decode into a string field: a JSON string is stored, null and an absent
\* member leave the zero value, any other value is an UnmarshalTypeError
\* that leaves the zero value
decodeString(obj, key) ==
  IF key \notin DOMAIN obj.f THEN [err |-> FALSE, v |-> <<>>]
  ELSE LET j == obj.f[key] IN
       IF j.k = "string" THEN [err |-> FALSE, v |-> j.s]
       ELSE IF j.k = "null" THEN [err |-> FALSE, v |-> <<>>]
       ELSE [err |-> TRUE, v |-> <<>>]

ZeroData == [f \in Fields |-> <<>>]

\* json.NewDecoder(httpResp.Body).Decode(&respData), first revision: the
\* whole value is scanned first (a syntax error or an unexpected end stores
\* nothing), then the members are stored; the first type error is returned
\* after the rest has been stored
jsonDecode(body) ==
  IF ~body.complete THEN [err |-> TRUE, Data |-> ZeroData]
  ELSE IF body.json.k = "null" THEN [err |-> FALSE, Data |-> ZeroData]
  ELSE IF body.json.k # "object" THEN [err |-> TRUE, Data |-> ZeroData]
  ELSE IF "data" \notin DOMAIN body.json.f THEN [err |-> FALSE, Data |-> ZeroData]
  ELSE LET d == body.json.f["data"] IN
       IF d.k = "null" THEN [err |-> FALSE, Data |-> ZeroData]
       ELSE IF d.k # "object" THEN [err |-> TRUE, Data |-> ZeroData]
       ELSE [err  |-> \E f \in Fields : decodeString(d, FieldTags[f]).err,
             Data |-> [f \in Fields |-> decodeString(d, FieldTags[f]).v]]

-----------------------------------------------------------------------------
(* types.String of the plugin framework                                    *)

StringNull     == [state |-> "null", value |-> <<>>]
StringValue(v) == [state |-> "known", value |-> v]

\* strconv quoting of a string without characters to escape (%q)
Quote(v) == <<"\"">> \o v \o <<"\"">>

\* (types.String).String(): "<null>" for null, the quoted value otherwise
String(s) ==
  IF s.state = "null" THEN <<"<","n","u","l","l",">">> ELSE Quote(s.value)

\* var data SysInfoDataSourceModel after req.Config.Get: every attribute of
\* the data source is computed, so every field is null
NullModel == [f \in Fields |-> StringNull]

\* second revision (lines 221-224): respData.Data is a SysInfoDataSourceModel;
\* its fields are types.String structs that a JSON string cannot be stored
\* into, so every field keeps its zero value, null
jsonDecodeModel(body) ==
  IF ~body.complete THEN [err |-> TRUE, Data |-> NullModel]
  ELSE IF body.json.k # "object" THEN [err |-> body.json.k # "null", Data |-> NullModel]
  ELSE IF "data" \notin DOMAIN body.json.f THEN [err |-> FALSE, Data |-> NullModel]
  ELSE LET d == body.json.f["data"] IN
       IF d.k # "object" THEN [err |-> d.k # "null", Data |-> NullModel]
       ELSE [err  |-> \E key \in {"version", "os"} :
                        key \in DOMAIN d.f /\ d.f[key].k \notin {"null", "object"},
             Data |-> NullModel]

\* lines 111-115: data.X = types.StringValue(respData.Data.X)
copyFields(dec) ==
  [err |-> dec.err, data |-> [f \in Fields |-> StringValue(dec.Data[f])]]

\* lines 226-230: data.X = types.StringValue(respData.Data.X.String())
copyFieldStrings(dec) ==
  [err |-> dec.err, data |-> [f \in Fields |-> StringValue(String(dec.Data[f]))]]

\* lines 100-115 (first revision) and 221-230 (second revision): decode the
\* body, ignoring the decoder's error, and copy the five fields into data
DecodeAndCopy(rev, body) ==
  IF rev = 1 THEN copyFields(jsonDecode(body))
  ELSE copyFieldStrings(jsonDecodeModel(body))

\* line 92 (first revision) and line 213 (second revision)
ReadRequest(rev) ==
  IF rev = 1 THEN NewRequest("GET", AboutPath) ELSE NewRequest("GET", DemoTarget)

-----------------------------------------------------------------------------
(* State                                                                   *)

\* provider sessions of one plugin process: each is a FireflyProvider made
\* by New(version)() with its SysInfoDataSource
Sessions == {"p1", "p2"}

\* the pointer to the process-wide http.DefaultClient
DefaultClient == [k |-> "client", name |-> "http.DefaultClient"]

\* provider blocks: endpoint and access_token
Configs == {[endpoint |-> EpLocal,    access_token |-> TokA],
            [endpoint |-> EpSecure,   access_token |-> TokB],
            [endpoint |-> EpNoScheme, access_token |-> TokA]}

\* how many times a caller hands the same request object to RoundTrip
MaxPasses == 2

VARIABLES
  revision,               \* the revision of SysInfoDataSource.Read that is built
  DefaultClientTransport, \* http.DefaultClient.Transport: None (nil) or a fireflyTransport
  remote,                 \* what the remote service does with a request
  providerData,           \* per session: resp.DataSourceData of its Configure
  sessionCfg,             \* per session: the configuration its session's Configure was given
  dsClient,               \* per session: d.client of its SysInfoDataSource
  lastRead,               \* the Read that returned last
  compared,               \* whether lastRead repeated the Read before it, and how they compare
  callT,                  \* direct caller: the transport it calls
  callReq,                \* direct caller: its request object
  entryReq,               \* direct caller: the request as it was on entry to the last RoundTrip
  callWire,               \* direct caller: what reached the underlying transport in the last RoundTrip
  passes                  \* direct caller: RoundTrip calls made with callReq

vars == <<revision, DefaultClientTransport, remote, providerData, sessionCfg,
          dsClient, lastRead, compared,
          callT, callReq, entryReq, callWire, passes>>

readVars   == <<revision, DefaultClientTransport, remote, providerData, sessionCfg,
                dsClient, lastRead, compared>>
callerVars == <<callT, callReq, entryReq, callWire, passes>>

Transports == {fireflyTransport(b, a) : b \in BaseURLs, a \in Tokens}

\* requests a caller of the client can build
RequestSamples ==
  [Method : {"GET"},
   URL : [Scheme : {<<>>, <<"h","t","t","p">>, <<"f","t","p">>},
          Host : {<<>>, OtherHost},
          Path : {AboutPath, AccountsPath},
          RawQuery : {<<>>, QueryA}],
   Authorization : {<<>>, <<BasicCred>>}]

Init ==
  /\ revision \in {1, 2}
  /\ DefaultClientTransport = None
  /\ remote \in Remotes
  /\ providerData = [s \in Sessions |-> None]
  /\ sessionCfg = [s \in Sessions |-> None]
  /\ dsClient = [s \in Sessions |-> None]
  /\ lastRead = None
  /\ compared = "na"
  /\ callT = None
  /\ callReq = None
  /\ entryReq = None
  /\ callWire = <<>>
  /\ passes = 0

-----------------------------------------------------------------------------
(* FireflyProvider.Configure and SysInfoDataSource.Configure               *)

\* provider.go lines 80-101.  getOk: req.Config.Get reported no error.
\* client is http.DefaultClient itself, so the assignment to
\* client.Transport is an assignment to the process-wide default client.
ProviderConfigure(s, cfg, getOk) ==
  /\ IF ~getOk
     THEN UNCHANGED <<DefaultClientTransport, providerData, sessionCfg>>
     ELSE /\ DefaultClientTransport' = fireflyTransport(cfg.endpoint, cfg.access_token)
          /\ providerData' = [providerData EXCEPT ![s] = DefaultClient]
          /\ sessionCfg' = [sessionCfg EXCEPT ![s] = cfg]
  /\ UNCHANGED <<revision, remote, dsClient, lastRead, compared>>
  /\ UNCHANGED callerVars

\* sysinfo_data_source.go lines 59-77: nothing happens without provider
\* data; the provider data is always the *http.Client
DataSourceConfigure(s) ==
  /\ IF providerData[s] = None
     THEN UNCHANGED dsClient
     ELSE dsClient' = [dsClient EXCEPT ![s] = providerData[s]]
  /\ UNCHANGED <<revision, DefaultClientTransport, remote, providerData, sessionCfg,
                 lastRead, compared>>
  /\ UNCHANGED callerVars

-----------------------------------------------------------------------------
(* SysInfoDataSource.Read                                                  *)

\* the record of a Read that has returned: whether a request reached the
\* underlying transport, the send (transport value, remote state, requests
\* on the wire), the configuration the session's Configure was given, the
\* response body and whether it is closed, Decode's error, and what the
\* response holds: an error diagnostic, the state
ReadRecord(s, sent, c, refused, resp, decodeErr, hasError, state) ==
  [k |-> "read", session |-> s, cfg |-> sessionCfg[s], sent |-> sent, call |-> c,
   refused |-> refused, httpResp |-> resp, decodeErr |-> decodeErr,
   hasError |-> hasError, state |-> state]

\* how a Read that has returned compares with the one that returned before
\* it: "na" unless both were sent through the same client configuration
\* against the same remote state
Compare(prev, cur) ==
  IF prev = None \/ ~prev.sent \/ ~cur.sent THEN "na"
  ELSE IF prev.call.transport # cur.call.transport \/ prev.call.remote # cur.call.remote
  THEN "na"
  ELSE IF prev.call.wire = cur.call.wire /\ prev.state = cur.state /\ prev.hasError = cur.hasError
  THEN "same" ELSE "differs"

\* defer httpResp.Body.Close() (line 98), run when Read returns
deferBodyCloseSkipped(resp) == resp
deferBodyClose(resp) == [resp EXCEPT !.closed = TRUE]

\* lines 100-121 of Read, after a response has arrived: the deferred Close,
\* Decode with its error dropped, the copy into data, resp.State.Set
readDecoded(s, c, resp, dc) ==
  ReadRecord(s, TRUE, c, FALSE, deferBodyClose(resp), dc.err, FALSE, dc.data)

\* lines 94-121 of Read, res being what d.client.Do returned
readOutcome(s, t, rem, res, rev) ==
  IF res.err
  THEN ReadRecord(s, res.wire # <<>>,
                  [transport |-> t, remote |-> rem, wire |-> res.wire],
                  res.refused, None, FALSE, TRUE, None)
  ELSE readDecoded(s, [transport |-> t, remote |-> rem, wire |-> res.wire],
                   [body |-> res.body, closed |-> FALSE],
                   DecodeAndCopy(rev, res.body))

\* the response of Read is kept as the last Read that returned
readReturns(r) ==
  /\ lastRead' = r
  /\ compared' = Compare(lastRead, r)

\* SysInfoDataSource.Read with httpReq the request built at line 92:
\* req.Config.Get and its early return (lines 84-88); d.client.Do(httpReq),
\* where d.client is the default client, whose Transport is read when the
\* request is sent; then the rest of Read.  A Read needs a configured data
\* source (d.client is nil before).
ReadWith(s, getOk, httpReq) ==
  /\ dsClient[s] # None
  /\ IF ~getOk
     THEN readReturns(ReadRecord(s, FALSE, None, FALSE, None, FALSE, TRUE, None))
     ELSE readReturns(readOutcome(s, DefaultClientTransport, remote,
                                  ClientDo(DefaultClientTransport, httpReq, remote),
                                  revision))
  /\ UNCHANGED <<revision, DefaultClientTransport, remote, providerData, sessionCfg, dsClient>>
  /\ UNCHANGED callerVars

ReadReusingRequest(s, getOk) ==
  ReadWith(s, getOk,
           IF lastRead # None /\ lastRead.sent
           THEN lastRead.call.wire[1] ELSE ReadRequest(revision))
Read(s, getOk) == ReadWith(s, getOk, ReadRequest(revision))

\* the remote service changes what it answers
RemoteChange(r) ==
  /\ r # remote
  /\ remote' = r
  /\ UNCHANGED <<revision, DefaultClientTransport, providerData, sessionCfg,
                 dsClient, lastRead, compared>>
  /\ UNCHANGED callerVars

Next ==
  \/ \E s \in Sessions, cfg \in Configs, getOk \in BOOLEAN : ProviderConfigure(s, cfg, getOk)
  \/ \E s \in Sessions : DataSourceConfigure(s)
  \/ \E s \in Sessions, getOk \in BOOLEAN : Read(s, getOk)
  \/ \E r \in Remotes : RemoteChange(r)

Spec == Init /\ [][Next]_vars

-----------------------------------------------------------------------------
(* A direct caller of fireflyTransport.RoundTrip: any transport value, any *)
(* request, the same request object handed over up to MaxPasses times      *)

InitCaller ==
  /\ revision = 1
  /\ DefaultClientTransport = None
  /\ remote \in {Refused, Body(EnvelopeA)}
  /\ providerData = [s \in Sessions |-> None]
  /\ sessionCfg = [s \in Sessions |-> None]
  /\ dsClient = [s \in Sessions |-> None]
  /\ lastRead = None
  /\ compared = "na"
  /\ callT \in Transports
  /\ callReq \in RequestSamples
  /\ entryReq = None
  /\ callWire = <<>>
  /\ passes = 0

callReturns(res) ==
  /\ entryReq' = callReq
  /\ callReq' = res.req
  /\ callWire' = res.wire

CallRoundTrip ==
  /\ passes < MaxPasses
  /\ callReturns(RoundTrip(callT, callReq, remote))
  /\ passes' = passes + 1
  /\ UNCHANGED callT
  /\ UNCHANGED readVars

NextCaller == CallRoundTrip

SpecCaller == InitCaller /\ [][NextCaller]_vars

-----------------------------------------------------------------------------
(* Properties of fireflyTransport.RoundTrip, under SpecCaller              *)

SchemeHost(u) == u.Scheme \o <<":", "/", "/">> \o u.Host

C2_AuthorizationIsBearer ==
  callWire # <<>> =>
     callWire[1].Authorization = <<BearerValue(callT.accessToken)>>

-----------------------------------------------------------------------------
(* Properties of the provider and of SysInfoDataSource.Read, under Spec    *)

\* the five members of the envelope's data object, when all are strings
WellFormed(body) ==
  /\ body.complete
  /\ body.json.k = "object"
  /\ "data" \in DOMAIN body.json.f
  /\ body.json.f["data"].k = "object"
  /\ \A f \in Fields :
       /\ FieldTags[f] \in DOMAIN body.json.f["data"].f
       /\ body.json.f["data"].f[FieldTags[f]].k = "string"

\* C3: a Read whose response body is not valid JSON ends with an error
\* diagnostic and sets no state.
C3_MalformedBodyFails ==
  (lastRead # None /\ lastRead.httpResp # None
     /\ ~lastRead.httpResp.body.complete) =>
       (lastRead.hasError /\ lastRead.state = None)

\* C4: a Read either sets all five fields from the members of a decoded
\* envelope that has them all, or ends with an error and sets no state.
C4_NeverPartial ==
  lastRead # None =>
     \/ lastRead.hasError /\ lastRead.state = None
     \/ /\ lastRead.state # None
        /\ lastRead.httpResp # None
        /\ WellFormed(lastRead.httpResp.body)
        /\ ~lastRead.decodeErr
        /\ \A f \in Fields :
             lastRead.state[f] =
               StringValue(lastRead.httpResp.body.json.f["data"].f[FieldTags[f]].s)

\* C5: for the well-formed envelope the state Read sets holds exactly the
\* five strings of the envelope, each under its own attribute.
C5_PassThrough ==
  (lastRead # None /\ lastRead.httpResp # None
     /\ lastRead.httpResp.body = Body(EnvelopeA)) =>
       lastRead.state =
         [Version    |-> StringValue(<<"6",".","1",".","0">>),
          APIVersion |-> StringValue(<<"2",".","0",".","0">>),
          PHPVersion |-> StringValue(<<"8",".","2">>),
          OS         |-> StringValue(<<"L","i","n","u","x">>),
          DBDriver   |-> StringValue(<<"m","y","s","q","l">>)]

\* C6: an endpoint that does not match the pattern never becomes the base
\* URL of a transport handed out by Configure, and the underlying transport
\* is never invoked under it.
C6_MalformedEndpointRejected ==
  /\ DefaultClientTransport # None =>
       EndpointRegexMatches(DefaultClientTransport.baseURL)
  /\ (lastRead # None /\ lastRead.sent) =>
       EndpointRegexMatches(lastRead.call.transport.baseURL)

\* C7: a request a session's data source sends through the client it
\* received goes to the endpoint and carries the token that session's
\* Configure was given, whatever Configure calls happened meanwhile.
C7_SessionIsolation ==
  (lastRead # None /\ lastRead.sent) =>
     /\ SchemeHost(lastRead.call.wire[1].URL) = lastRead.cfg.endpoint
     /\ HeaderGet(lastRead.call.wire[1].Authorization)
          = BearerValue(lastRead.cfg.access_token)

\* C8: when the remote refuses the connection, Read ends with an error
\* diagnostic and no state, the underlying transport was invoked exactly
\* once, and the request it was invoked with already had the scheme and
\* host of the base URL and the Authorization header of the token.
C8_SendFailure ==
  (lastRead # None /\ lastRead.refused) =>
     /\ lastRead.hasError
     /\ lastRead.state = None
     /\ Len(lastRead.call.wire) = 1
     /\ SchemeHost(lastRead.call.wire[1].URL) = lastRead.call.transport.baseURL
     /\ lastRead.call.wire[1].Authorization
          = <<BearerValue(lastRead.call.transport.accessToken)>>
     /\ lastRead.call.wire[1].URL.Path = AboutPath

C8_Witness ==
  /\ lastRead # None
  /\ lastRead.refused
  /\ lastRead.call.transport.baseURL = EpLocal

\* C9: the body of every response a Read acquired is closed when the Read
\* has returned, whether or not the decode failed; a Read whose send failed
\* holds no body.
C9_BodyClosed ==
  lastRead # None =>
     /\ lastRead.httpResp # None => lastRead.httpResp.closed
     /\ (lastRead.hasError /\ lastRead.sent) => lastRead.httpResp = None

\* a Read whose decode failed has returned with its body closed
C9_Witness ==
  /\ lastRead # None
  /\ lastRead.httpResp # None
  /\ lastRead.decodeErr
  /\ lastRead.httpResp.closed

\* C10: a Read that follows another Read through the same client
\* configuration against the same remote state sends the same request and
\* ends with the same state and diagnostics.
C10_Idempotent == compared # "differs"

\* two Reads in a row against the same remote state both set a state
C10_Witness ==
  /\ compared = "same"
  /\ lastRead.state # None
  /\ lastRead.httpResp.body = Body(EnvelopeA)

=============================================================================
